---------------------------- MODULE Spec2Model ----------------------------
(***************************************************************************)
(* Copy-on-write trie (sjtu::Trie) and its versioned, thread-safe store    *)
(* (sjtu::TrieStore), modelled from src/trie/src.hpp.                      *)
(*                                                                         *)
(* Nodes live in a heap: node references (shared_ptr / raw pointers) are   *)
(* indices into `heap`, 0 is nullptr.  An allocation appends a node, so    *)
(* within a call, and in the store (which keeps every version), two        *)
(* references are equal exactly when they name the same object.            *)
(*                                                                         *)
(* Spec is the TrieStore used by concurrent threads; TrieSpec is a single  *)
(* caller applying Trie::Put / Trie::Remove to the trie it holds; LiveSpec  *)
(* is the TrieStore under fair scheduling, with readers that keep calling. *)
(***************************************************************************)
EXTENDS Integers, Sequences, FiniteSets, TLC

\* ------------------------------------------------------------------ bounds
MaxKeyLen == 2
MaxEntries == 2
NumThreads == 2
MaxCalls == 2

\* ------------------------------------------------------------------ inputs
CharOrder == <<"a", "b">>
Chars == {CharOrder[j] : j \in DOMAIN CharOrder}
Types == {"int", "string"}

KeysOfLen(n) == [1..n -> Chars]
Keys == UNION {KeysOfLen(n) : n \in 0..MaxKeyLen}

\* The values a caller passes to Put<T>: the template type T and a payload.
Values ==
  { [type |-> "int", v |-> 1], [type |-> "int", v |-> 2], [type |-> "string", v |-> 1] }

\* What the threads pass to the TrieStore calls.
StoreKeys == {<<>>, <<"a">>, <<"a", "b">>}
StoreValues == {[type |-> "int", v |-> 1], [type |-> "string", v |-> 1]}
\* size_t(-1), the default `version` of TrieStore::Get: the newest version
Latest == -1
VersionArgs == {Latest, 0, 1, 2}

\* ------------------------------------------------------------------ nodes
Null == 0
NoValue == [type |-> "none", v |-> 0]
NullValue == [type |-> "nullptr", v |-> 0]

\* TrieNode() : no children, is_value_node_{false}
NoChildren == [x \in {} |-> Null]
NewTrieNode ==
  [type |-> "TrieNode", children |-> NoChildren, is_value_node_ |-> FALSE, value_ |-> NoValue]

\* explicit TrieNode(children)
TrieNodeOf(children) ==
  [type |-> "TrieNode", children |-> children, is_value_node_ |-> FALSE, value_ |-> NoValue]

\* TrieNodeWithValue(children, value): is_value_node_ = true
TrieNodeWithValue(children, value) ==
  [type |-> "TrieNodeWithValue", children |-> children, is_value_node_ |-> TRUE,
   value_ |-> value]

\* A copy that leaves the children behind.
CloneDropsChildren(node) ==
  IF node.type = "TrieNodeWithValue"
  THEN TrieNodeWithValue(NoChildren, node.value_)
  ELSE TrieNodeOf(NoChildren)

\* virtual Clone(): the dynamic type picks the override; children are copied
\* by reference, the value pointer is shared.
Clone(node) ==
  IF node.type = "TrieNodeWithValue"
  THEN TrieNodeWithValue(node.children, node.value_)
  ELSE TrieNodeOf(node.children)

\* std::map helpers: children_.find(c) != end(), children_[c] = id, erase(c)
HasChild(node, c) == c \in DOMAIN node.children
SetChild(children, c, id) ==
  [x \in (DOMAIN children) \cup {c} |-> IF x = c THEN id ELSE children[x]]
EraseChild(children, c) ==
  [x \in (DOMAIN children) \ {c} |-> children[x]]

\* make_unique / make_shared: the new object gets the next free reference
Alloc(h, node) == Append(h, node)
NewRef(h) == Len(h) + 1

\* ------------------------------------------------------------------ Trie::Get
RECURSIVE GetWalk(_, _, _, _)
GetWalk(h, cur, key, i) ==
  IF i > Len(key) THEN cur
  ELSE IF ~HasChild(h[cur], key[i]) THEN Null
  ELSE GetWalk(h, h[cur].children[key[i]], key, i + 1)

\* A cast that succeeds on every value node, whatever its value type.
DynamicCastAnyType(node, T) == node.type = "TrieNodeWithValue"

\* dynamic_cast<const TrieNodeWithValue<T>*>(cur.get())
DynamicCast(node, T) == node.type = "TrieNodeWithValue" /\ node.value_.type = T

TrieGet(h, root, key, T) ==
  IF root = Null THEN NullValue
  ELSE LET cur == GetWalk(h, root, key, 1)
       IN IF cur = Null THEN NullValue
          ELSE IF DynamicCast(h[cur], T) THEN h[cur].value_ ELSE NullValue

\* ------------------------------------------------------------------ Trie::Put
\* The loop of lines 146-156; returns the heap, cur and copy after it.
RECURSIVE PutLoop(_, _, _, _, _)
PutLoop(h, cur, copy, key, i) ==
  IF i > Len(key) THEN [heap |-> h, cur |-> cur, copy |-> copy]
  ELSE
    LET c == key[i]
        child == IF HasChild(h[cur], c) THEN Clone(h[h[cur].children[c]]) ELSE NewTrieNode
        h1 == Alloc(h, child)
        id == NewRef(h)
        h2 == [h1 EXCEPT ![cur].children = SetChild(@, c, id)]
    IN PutLoop(h2, id, IF i = Len(key) THEN cur ELSE copy, key, i + 1)

\* A value node built without the terminal node's children.
ValNodeNoChildren(cur, value) == TrieNodeWithValue(NoChildren, value)

\* Line 159: the value node that replaces the terminal node keeps its children.
ValNode(cur, value) == TrieNodeWithValue(cur.children, value)

\* A new_root that aliases the receiver's root instead of cloning it.
PutRootShared(h, root) ==
  IF root # Null THEN [heap |-> h, root |-> root]
  ELSE [heap |-> Alloc(h, NewTrieNode), root |-> NewRef(h)]

\* Line 141: new_root = root_ ? root_->Clone() : make_unique<TrieNode>()
PutRoot(h, root) ==
  [heap |-> Alloc(h, IF root # Null THEN Clone(h[root]) ELSE NewTrieNode),
   root |-> NewRef(h)]

\* Result of Trie::Put: status "ok" with the new heap and root, or "ub" when the
\* call dereferences the null `copy` (line 160), which happens for the empty key.
TriePut(h, root, key, value) ==
  LET new_root == PutRoot(h, root).root
      r == PutLoop(PutRoot(h, root).heap, new_root, Null, key, 1)
  IN IF r.copy = Null
     THEN [status |-> "ub", heap |-> h, root |-> root]
     ELSE LET val_node == ValNode(r.heap[r.cur], value)
              h1 == Alloc(r.heap, val_node)
              id == NewRef(r.heap)
          IN [status |-> "ok",
              heap |-> [h1 EXCEPT ![r.copy].children = SetChild(@, key[Len(key)], id)],
              root |-> new_root]

\* ------------------------------------------------------------------ Trie::Remove
\* The loop of lines 175-182; found = FALSE is the early `return *this`.
RECURSIVE RemoveLoop(_, _, _, _, _)
RemoveLoop(h, cur, path, key, i) ==
  IF i > Len(key) THEN [found |-> TRUE, heap |-> h, cur |-> cur, path |-> path]
  ELSE
    LET c == key[i]
    IN IF ~HasChild(h[cur], c)
       THEN [found |-> FALSE, heap |-> h, cur |-> cur, path |-> path]
       ELSE LET h1 == Alloc(h, Clone(h[h[cur].children[c]]))
                id == NewRef(h)
                h2 == [h1 EXCEPT ![cur].children = SetChild(@, c, id)]
            IN RemoveLoop(h2, id, Append(path, cur), key, i + 1)

\* A Remove that unlinks the leaf and leaves its ancestors as they are.
CleanUpNone(h, path, key, i) == h

\* The cleanup loop of lines 197-205, i counted from 1 (path[i] is the node at
\* depth i-1; its parent path[i-1] holds it under key[i-1]).
RECURSIVE CleanUp(_, _, _, _)
CleanUp(h, path, key, i) ==
  IF i < 1 THEN h
  ELSE IF DOMAIN h[path[i]].children = {} /\ ~h[path[i]].is_value_node_
       THEN IF i > 1
            THEN CleanUp([h EXCEPT ![path[i - 1]].children = EraseChild(@, key[i - 1])],
                         path, key, i - 1)
            ELSE CleanUp(h, path, key, i - 1)
       ELSE h

\* A no-op that hands back the cloned root instead of the receiver.
ReturnClonedRoot(h, root) ==
  IF root = Null THEN [status |-> "ok", heap |-> h, root |-> root]
  ELSE [status |-> "ok", heap |-> Alloc(h, Clone(h[root])), root |-> NewRef(h)]

\* `return *this` (lines 169, 177, 185): the receiver's root, nothing allocated
\* survives the call.
ReturnThis(h, root) == [status |-> "ok", heap |-> h, root |-> root]

\* A demotion that clones the node, and so keeps its value.
DemoteKeepsValue(cur) == Clone(cur)

\* Line 188: the plain node that replaces a value node with children.
Demote(cur) == TrieNodeOf(cur.children)

\* Result of Trie::Remove: "ok" with the heap and root (root unchanged and the
\* heap as before when the call returns *this), or "ub" when path.back() is
\* taken of an empty vector (lines 189, 193: empty key on a value root).
TrieRemove(h, root, key) ==
  IF root = Null THEN ReturnThis(h, root)
  ELSE
    LET h0 == Alloc(h, Clone(h[root]))
        new_root == NewRef(h)
        r == RemoveLoop(h0, new_root, <<>>, key, 1)
        n == Len(key)
    IN IF ~r.found THEN ReturnThis(h, root)
       ELSE IF ~r.heap[r.cur].is_value_node_ THEN ReturnThis(h, root)
       ELSE IF r.path = <<>> THEN [status |-> "ub", heap |-> h, root |-> root]
       ELSE IF DOMAIN r.heap[r.cur].children # {}
       THEN LET h1 == Alloc(r.heap, Demote(r.heap[r.cur]))
                id == NewRef(r.heap)
            IN [status |-> "ok",
                heap |-> [h1 EXCEPT ![r.path[Len(r.path)]].children = SetChild(@, key[n], id)],
                root |-> new_root]
       ELSE LET h1 == [r.heap EXCEPT ![r.cur].is_value_node_ = FALSE,
                                     ![r.path[Len(r.path)]].children = EraseChild(@, key[n])]
            IN [status |-> "ok", heap |-> CleanUp(h1, r.path, key, Len(r.path)),
                root |-> new_root]

\* ------------------------------------------------------------------ views
\* The key holds a value (of some type) in the trie.
HoldsValue(h, root, key) == \E T \in Types : TrieGet(h, root, key, T) # NullValue
Entries(h, root) == {key \in Keys : HoldsValue(h, root, key)}

\* The nodes reachable from a node, in preorder (children by character).
RECURSIVE Preorder(_, _)
RECURSIVE PreorderFrom(_, _, _)
Preorder(h, id) == <<id>> \o PreorderFrom(h, id, 1)
PreorderFrom(h, id, j) ==
  IF j > Len(CharOrder) THEN <<>>
  ELSE (IF HasChild(h[id], CharOrder[j])
        THEN Preorder(h, h[id].children[CharOrder[j]]) ELSE <<>>)
       \o PreorderFrom(h, id, j + 1)

Reach(h, root) ==
  IF root = Null THEN {} ELSE {Preorder(h, root)[j] : j \in 1..Len(Preorder(h, root))}

\* The caller drops the receiver and keeps the returned Trie: the nodes only
\* the old root_ held are destroyed (reference counts reach zero).  The nodes
\* that stay are named by their preorder position; which reference a live
\* object has carries no meaning.
Release(h, root) ==
  IF root = Null THEN <<>>
  ELSE LET ord == Preorder(h, root)
           at(id) == CHOOSE j \in 1..Len(ord) : ord[j] = id
       IN [j \in 1..Len(ord) |->
             [h[ord[j]] EXCEPT !.children = [c \in DOMAIN @ |-> at(@[c])]]]

\* ------------------------------------------------------------------ state
VARIABLES
  heap,            \* the node objects, by reference
  crashed,         \* "no", or the signal that ended the process
  trie,            \* single-threaded use: the caller's current Trie (its root_)
  snapshots_,      \* TrieStore::snapshots_, each Trie by its root_
  write_lock_,     \* TrieStore::write_lock_: 0, or the thread that owns it
  snapshots_lock_, \* TrieStore::snapshots_lock_: exclusive owner and shared owners
  pc,              \* per thread: where it is in its TrieStore call
  call,            \* per thread: the call it is in and its arguments
  local,           \* per thread: current_version / trie and new_trie (their root_)
  ret,             \* per thread: the call that returned last and what it returned
  log,             \* history: for each appended version, the call that appended it
  ncalls,          \* history: number of calls started
  maxret           \* history: the largest version a Put/Remove has returned

storeVars ==
  <<snapshots_, write_lock_, snapshots_lock_, pc, call, local, ret, log, ncalls, maxret>>
vars == <<heap, crashed, trie, storeVars>>

Threads == 1..NumThreads

\* What a build does on the null dereference of line 160 / the empty
\* path.back(): every outcome ends the process (a fault on the access, or the
\* library's bounds assertion aborting first).
Signals == {"SIGSEGV", "SIGABRT"}

NoCall ==
  [op |-> "none", key |-> <<>>, value |-> NoValue, version |-> 0, floor |-> 0]
NoLocal == [cur |-> Null, new |-> Null]
NoRet == [op |-> "none", val |-> 0]

Init ==
  /\ heap = <<>>
  /\ crashed = "no"
  /\ trie = Null
  /\ snapshots_ = <<Null>>
  /\ write_lock_ = 0
  /\ snapshots_lock_ = [excl |-> 0, shared |-> {}]
  /\ pc = [t \in Threads |-> "idle"]
  /\ call = [t \in Threads |-> NoCall]
  /\ local = [t \in Threads |-> NoLocal]
  /\ ret = [t \in Threads |-> NoRet]
  /\ log = <<>>
  /\ ncalls = 0
  /\ maxret = 0

\* ------------------------------------------------- single-threaded Trie use
\* The caller keeps the result r of a Trie call in place of the receiver.
Keep(r) ==
  /\ heap' = Release(r.heap, r.root)
  /\ trie' = IF r.root = Null THEN Null ELSE 1
  /\ IF r.status = "ok" THEN crashed' = crashed ELSE crashed' \in Signals

\* trie = trie.Put<T>(key, value)
CallTriePut(key, value) ==
  /\ crashed = "no"
  /\ Cardinality(Entries(heap, trie)) < MaxEntries \/ HoldsValue(heap, trie, key)
  /\ Keep(TriePut(heap, trie, key, value))
  /\ UNCHANGED storeVars

\* trie = trie.Remove(key)
CallTrieRemove(key) ==
  /\ crashed = "no"
  /\ Keep(TrieRemove(heap, trie, key))
  /\ UNCHANGED storeVars

TrieNext ==
  \/ \E key \in Keys, value \in Values : CallTriePut(key, value)
  \/ \E key \in Keys : CallTrieRemove(key)

TrieSpec == Init /\ [][TrieNext]_vars

\* ------------------------------------------------------------- TrieStore
\* A write_lock_ that never makes a writer wait.
CanLockAlways(owner) == TRUE

\* An exclusive lock that is granted while shared owners remain.
CanLockUniqueIgnoresReaders(l) == l.excl = 0

\* std::mutex / std::shared_mutex: when a lock() / lock_shared() can return
CanLock(owner) == owner = 0
CanLockShared(l) == l.excl = 0
CanLockUnique(l) == l.excl = 0 /\ l.shared = {}

\* A publication that overwrites the newest slot instead of appending.
PushBackOverwrite(s, t) == [s EXCEPT ![Len(s)] = t]

\* snapshots_.back(), snapshots_.push_back(t), snapshots_.size() - 1
Back(s) == s[Len(s)]
PushBack(s, t) == Append(s, t)
\* A Put that returns the new size instead of the new index.
PutResultSize(s) == Len(s)

\* line 270 / 291 / 287 / 297: the index each call returns
PutResult(s) == Len(s) - 1
RemoveResult(s) == Len(s) - 1
\* A no-op Remove that returns the size instead of the newest index.
RemoveNoopResultSize(s) == Len(s)

\* line 287: return snapshots_.size() - 1 on the no-op path
RemoveNoopResult(s) == Len(s) - 1
GetVersionResult(s) == Len(s) - 1
\* A no-op test that never finds the tries equal.
TrieEqNever(r1, r2) == FALSE

\* line 287: new_trie == *current_version (Trie::operator==, lines 109-111)
TrieEq(r1, r2) == r1 = r2

NewCall(op, key, value, version) ==
  [op |-> op, key |-> key, value |-> value, version |-> version, floor |-> maxret]

\* A thread enters a TrieStore call.
Start(t, c) ==
  /\ crashed = "no"
  /\ pc[t] = "idle"
  /\ ncalls < MaxCalls
  /\ ncalls' = ncalls + 1
  /\ call' = [call EXCEPT ![t] = c]
  /\ ret' = [ret EXCEPT ![t] = NoRet]
  /\ UNCHANGED <<heap, crashed, trie, snapshots_, write_lock_, snapshots_lock_, local,
                 log, maxret>>

\* A thread's call returns val.
Return(t, val) ==
  /\ pc' = [pc EXCEPT ![t] = "idle"]
  /\ ret' = [ret EXCEPT ![t] = [op |-> call[t].op, val |-> val]]
  /\ call' = [call EXCEPT ![t] = NoCall]
  /\ local' = [local EXCEPT ![t] = NoLocal]

StartPut(t, key, value) ==
  /\ Start(t, NewCall("Put", key, value, 0))
  /\ pc' = [pc EXCEPT ![t] = "w_wlock"]

StartRemove(t, key) ==
  /\ Start(t, NewCall("Remove", key, NoValue, 0))
  /\ pc' = [pc EXCEPT ![t] = "w_wlock"]

\* lines 256 / 277: std::lock_guard<std::mutex> writeGuard(write_lock_)
WriterLock(t) ==
  /\ crashed = "no"
  /\ pc[t] = "w_wlock"
  /\ CanLock(write_lock_)
  /\ write_lock_' = t
  /\ pc' = [pc EXCEPT ![t] = "w_slock"]
  /\ UNCHANGED <<heap, crashed, trie, snapshots_, snapshots_lock_, call, local, ret, log,
                 ncalls, maxret>>

\* lines 260 / 281: std::shared_lock lock(snapshots_lock_)
WriterLockShared(t) ==
  /\ crashed = "no"
  /\ pc[t] = "w_slock"
  /\ CanLockShared(snapshots_lock_)
  /\ snapshots_lock_' = [snapshots_lock_ EXCEPT !.shared = @ \cup {t}]
  /\ pc' = [pc EXCEPT ![t] = "w_read"]
  /\ UNCHANGED <<heap, crashed, trie, snapshots_, write_lock_, call, local, ret, log,
                 ncalls, maxret>>

\* A writer that trades its shared lock for the exclusive one before it
\* computes, and so holds the sequence exclusively through the computation.
HoldThroughCompute(l, t) == [l EXCEPT !.shared = @ \ {t}, !.excl = t]

\* lines 262 / 283: the block of the shared_lock ends before the computation
ReleaseBeforeCompute(l, t) == [l EXCEPT !.shared = @ \ {t}]

\* lines 261-262 / 282-283: current_version = copy of snapshots_.back(); unlock
WriterReadBack(t) ==
  /\ crashed = "no"
  /\ pc[t] = "w_read"
  /\ local' = [local EXCEPT ![t].cur = Back(snapshots_)]
  /\ snapshots_lock_' = ReleaseBeforeCompute(snapshots_lock_, t)
  /\ pc' = [pc EXCEPT ![t] = "w_compute"]
  /\ UNCHANGED <<heap, crashed, trie, snapshots_, write_lock_, call, ret, log, ncalls,
                 maxret>>

\* line 264: Trie new_trie = current_version->Put(key, std::move(value))
PutCompute(t) ==
  /\ crashed = "no"
  /\ pc[t] = "w_compute" /\ call[t].op = "Put"
  /\ LET r == TriePut(heap, local[t].cur, call[t].key, call[t].value)
     IN /\ heap' = r.heap
        /\ local' = [local EXCEPT ![t].new = r.root]
        /\ IF r.status = "ok" THEN crashed' = crashed ELSE crashed' \in Signals
  /\ pc' = [pc EXCEPT ![t] = "w_ulock"]
  /\ UNCHANGED <<trie, snapshots_, write_lock_, snapshots_lock_, call, ret, log, ncalls,
                 maxret>>

\* lines 285-287: new_trie = current_version->Remove(key) and the no-op test
RemoveCompute(t) ==
  /\ crashed = "no"
  /\ pc[t] = "w_compute" /\ call[t].op = "Remove"
  /\ LET r == TrieRemove(heap, local[t].cur, call[t].key)
     IN /\ heap' = r.heap
        /\ local' = [local EXCEPT ![t].new = r.root]
        /\ IF r.status = "ok" THEN crashed' = crashed ELSE crashed' \in Signals
        /\ pc' = [pc EXCEPT ![t] =
                    IF TrieEq(r.root, local[t].cur) THEN "r_noop" ELSE "w_ulock"]
  /\ UNCHANGED <<trie, snapshots_, write_lock_, snapshots_lock_, call, ret, log, ncalls,
                 maxret>>

\* line 287: return snapshots_.size() - 1 (no lock on snapshots_lock_ taken);
\* writeGuard is released
RemoveReturnNoop(t) ==
  /\ crashed = "no"
  /\ pc[t] = "r_noop"
  /\ Return(t, RemoveNoopResult(snapshots_))
  /\ maxret' = IF RemoveNoopResult(snapshots_) > maxret
               THEN RemoveNoopResult(snapshots_) ELSE maxret
  /\ write_lock_' = 0
  /\ UNCHANGED <<heap, crashed, trie, snapshots_, snapshots_lock_, log, ncalls>>

\* lines 267 / 289: std::unique_lock lock(snapshots_lock_)
WriterLockUnique(t) ==
  /\ crashed = "no"
  /\ pc[t] = "w_ulock"
  /\ CanLockUnique(snapshots_lock_)
  /\ snapshots_lock_' = [snapshots_lock_ EXCEPT !.excl = t]
  /\ pc' = [pc EXCEPT ![t] = "w_append"]
  /\ UNCHANGED <<heap, crashed, trie, snapshots_, write_lock_, call, local, ret, log,
                 ncalls, maxret>>

\* lines 268-270 / 290-291: push_back(new_trie); return size() - 1; both locks
\* are released on the way out
WriterAppend(t) ==
  /\ crashed = "no"
  /\ pc[t] = "w_append"
  /\ snapshots_' = PushBack(snapshots_, local[t].new)
  /\ LET val == IF call[t].op = "Put" THEN PutResult(snapshots_')
                ELSE RemoveResult(snapshots_')
     IN /\ Return(t, val)
        /\ maxret' = IF val > maxret THEN val ELSE maxret
  /\ log' = Append(log, [by |-> t, op |-> call[t].op, key |-> call[t].key,
                         value |-> call[t].value])
  /\ snapshots_lock_' = [snapshots_lock_ EXCEPT !.excl = 0]
  /\ write_lock_' = 0
  /\ UNCHANGED <<heap, crashed, trie, ncalls>>

StartGetVersion(t) ==
  /\ Start(t, NewCall("get_version", <<>>, NoValue, 0))
  /\ pc' = [pc EXCEPT ![t] = "v_slock"]

\* The key and T of a Get are first read at lines 244-247; they are drawn there.
StartGet(t, version) ==
  /\ Start(t, NewCall("Get", <<>>, NoValue, version))
  /\ pc' = [pc EXCEPT ![t] = "g_slock"]

\* lines 239 / 296: std::shared_lock lock(snapshots_lock_)
ReaderLockShared(t) ==
  /\ crashed = "no"
  /\ pc[t] \in {"g_slock", "v_slock"}
  /\ CanLockShared(snapshots_lock_)
  /\ snapshots_lock_' = [snapshots_lock_ EXCEPT !.shared = @ \cup {t}]
  /\ pc' = [pc EXCEPT ![t] = IF pc[t] = "g_slock" THEN "g_read" ELSE "v_read"]
  /\ UNCHANGED <<heap, crashed, trie, snapshots_, write_lock_, call, local, ret, log,
                 ncalls, maxret>>

\* line 297: return snapshots_.size() - 1
GetVersionRead(t) ==
  /\ crashed = "no"
  /\ pc[t] = "v_read"
  /\ Return(t, GetVersionResult(snapshots_))
  /\ snapshots_lock_' = [snapshots_lock_ EXCEPT !.shared = @ \ {t}]
  /\ UNCHANGED <<heap, crashed, trie, snapshots_, write_lock_, log, ncalls, maxret>>

\* A sentinel that resolves to the oldest version.
ResolveOldest(s, version) == IF version = Latest THEN 0 ELSE version

\* lines 240-241: the version the call reads (size_t(-1) means the newest)
Resolve(s, version) == IF version = Latest THEN Len(s) - 1 ELSE version
InRange(s, version) == ~(Resolve(s, version) >= Len(s))
\* A read that takes the oldest slot whatever the version.
SlotFront(s, version) == s[1]

\* line 242: snapshots_[version]
Slot(s, version) == s[version + 1]

\* lines 240-243: resolve the version; out of range returns std::nullopt,
\* else trie = copy of snapshots_[version]; the shared lock is released
GetRead(t) ==
  /\ crashed = "no"
  /\ pc[t] = "g_read"
  /\ snapshots_lock_' = [snapshots_lock_ EXCEPT !.shared = @ \ {t}]
  /\ IF InRange(snapshots_, call[t].version)
     THEN /\ local' = [local EXCEPT
                         ![t].cur = Slot(snapshots_, Resolve(snapshots_, call[t].version))]
          /\ pc' = [pc EXCEPT ![t] = "g_walk"]
          /\ UNCHANGED <<call, ret>>
     ELSE Return(t, NullValue)
  /\ UNCHANGED <<heap, crashed, trie, snapshots_, write_lock_, log, ncalls, maxret>>

\* lines 244-247: trie->Get<T>(key) with no lock held; nullptr gives
\* std::nullopt, a value gives a ValueGuard on it
GetWalkTrie(t, key, T) ==
  /\ crashed = "no"
  /\ pc[t] = "g_walk"
  /\ Return(t, TrieGet(heap, local[t].cur, key, T))
  /\ UNCHANGED <<heap, crashed, trie, snapshots_, write_lock_, snapshots_lock_, log,
                 ncalls, maxret>>

Next ==
  \/ \E t \in Threads, key \in StoreKeys, value \in StoreValues : StartPut(t, key, value)
  \/ \E t \in Threads, key \in StoreKeys : StartRemove(t, key)
  \/ \E t \in Threads : StartGetVersion(t)
  \/ \E t \in Threads, version \in VersionArgs : StartGet(t, version)
  \/ \E t \in Threads : WriterLock(t)
  \/ \E t \in Threads : WriterLockShared(t)
  \/ \E t \in Threads : WriterReadBack(t)
  \/ \E t \in Threads : PutCompute(t)
  \/ \E t \in Threads : RemoveCompute(t)
  \/ \E t \in Threads : RemoveReturnNoop(t)
  \/ \E t \in Threads : WriterLockUnique(t)
  \/ \E t \in Threads : WriterAppend(t)
  \/ \E t \in Threads : ReaderLockShared(t)
  \/ \E t \in Threads : GetVersionRead(t)
  \/ \E t \in Threads : GetRead(t)
  \/ \E t \in Threads, key \in StoreKeys, T \in Types : GetWalkTrie(t, key, T)

Spec == Init /\ [][Next]_vars

\* The steps of thread t inside a call it has started.
Step(t) ==
  \/ WriterLock(t) \/ WriterLockShared(t) \/ WriterReadBack(t)
  \/ PutCompute(t) \/ RemoveCompute(t) \/ RemoveReturnNoop(t)
  \/ WriterLockUnique(t) \/ WriterAppend(t)
  \/ ReaderLockShared(t) \/ GetVersionRead(t) \/ GetRead(t)
  \/ \E key \in StoreKeys, T \in Types : GetWalkTrie(t, key, T)

\* Scheduling: a thread whose next step stays possible takes it (a running
\* thread makes progress; a lock() returns when the lock stays free).  Nobody
\* is obliged to start a call, and neither mutex promises more than this to
\* a thread whose lock is free only now and then.
Fairness == \A t \in Threads : WF_vars(Step(t))

\* Readers may keep calling: once the counted calls are used up, an idle
\* thread may start one more get_version, any number of times.
StartGetVersionAgain(t) ==
  /\ crashed = "no"
  /\ pc[t] = "idle"
  /\ ncalls = MaxCalls
  /\ call' = [call EXCEPT ![t] = NewCall("get_version", <<>>, NoValue, 0)]
  /\ ret' = [ret EXCEPT ![t] = NoRet]
  /\ pc' = [pc EXCEPT ![t] = "v_slock"]
  /\ UNCHANGED <<heap, crashed, trie, snapshots_, write_lock_, snapshots_lock_, local,
                 log, ncalls, maxret>>

LiveNext == Next \/ \E t \in Threads : StartGetVersionAgain(t)

LiveSpec == Init /\ [][LiveNext]_vars /\ Fairness

\* LiveSpec with a snapshots_lock_ that serves a waiting writer: a
\* lock() that is possible again and again returns.
WriterFairSpec == LiveSpec /\ \A t \in Threads : SF_vars(WriterLockUnique(t))

\* ================================================================== claims
\* ---- helpers of the formulas
IsProperPrefix(k1, k2) ==
  Len(k1) < Len(k2) /\ \A j \in 1..Len(k1) : k1[j] = k2[j]
\* The node the key leads to (Null when the path breaks off).
NodeAt(h, root, key) == IF root = Null THEN Null ELSE GetWalk(h, root, key, 1)
HasChildren(h, root, key) ==
  NodeAt(h, root, key) # Null /\ DOMAIN h[NodeAt(h, root, key)].children # {}
SameLookups(h1, r1, h2, r2, keys) ==
  \A key \in keys, T \in Types : TrieGet(h1, r1, key, T) = TrieGet(h2, r2, key, T)

\* C5: Trie::Put is total for the empty key: on every reachable trie Put("", v)
\* returns, Get<T>("") on the result is v, and every key that held a value
\* before still holds one.
C5_PutEmptyKeyTotal ==
  \A value \in Values :
    LET r == TriePut(heap, trie, <<>>, value)
    IN /\ r.status = "ok"
       /\ TrieGet(r.heap, r.root, <<>>, value.type) = value
       /\ \A key \in Entries(heap, trie) : HoldsValue(r.heap, r.root, key)

\* C6: no trie produced by Put and Remove contains a node that has neither a
\* value nor a child, the root included.
C6_NoEmptyNode ==
  \A id \in Reach(heap, trie) :
    heap[id].type = "TrieNodeWithValue" \/ DOMAIN heap[id].children # {}

\* C7: round trip: on every reachable trie, for every key and value,
\* Put(key, value) returns a trie on which Get<T>(key) is that value.
C7_RoundTrip ==
  \A key \in Keys, value \in Values :
    LET r == TriePut(heap, trie, key, value)
    IN r.status = "ok" /\ TrieGet(r.heap, r.root, key, value.type) = value

\* The round trip of C7 for the keys of length >= 1 (the keys Put returns for).
C7_RoundTripNonEmptyKey ==
  \A key \in Keys \ {<<>>}, value \in Values :
    LET r == TriePut(heap, trie, key, value)
    IN r.status = "ok" /\ TrieGet(r.heap, r.root, key, value.type) = value

\* C8: on every reachable trie, a Put(key, x) or Remove(key) that returns
\* leaves the lookup of every other key, for every type, as it was in the
\* receiver.
C8_OtherKeysUnchanged ==
  \A key \in Keys :
    /\ \A value \in Values :
         LET r == TriePut(heap, trie, key, value)
         IN r.status = "ok" =>
              SameLookups(r.heap, r.root, heap, trie, Keys \ {key})
    /\ LET r == TrieRemove(heap, trie, key)
       IN r.status = "ok" =>
            SameLookups(r.heap, r.root, heap, trie, Keys \ {key})

\* C8 witness: a trie where a key and a proper extension of it both hold
\* values; overwriting and removing the shorter key, and overwriting the
\* longer one, each produce a new trie that keeps the other key's value.
C8_Witness ==
  \E key \in Keys, ext \in Keys, value \in Values :
    /\ IsProperPrefix(key, ext)
    /\ HoldsValue(heap, trie, key) /\ HoldsValue(heap, trie, ext)
    /\ TrieGet(heap, trie, key, value.type) # value
    /\ LET p == TriePut(heap, trie, key, value)
           q == TrieRemove(heap, trie, key)
           e == TriePut(heap, trie, ext, value)
       IN /\ p.status = "ok" /\ TrieGet(p.heap, p.root, key, value.type) = value
          /\ SameLookups(p.heap, p.root, heap, trie, {ext})
          /\ q.status = "ok" /\ q.root # trie /\ ~HoldsValue(q.heap, q.root, key)
          /\ SameLookups(q.heap, q.root, heap, trie, {ext})
          /\ e.status = "ok" /\ SameLookups(e.heap, e.root, heap, trie, {key})

\* C9: delete-then-miss: on every reachable trie, for every key that holds a
\* value, Remove(key) returns a trie on which Get<T>(key) is absent for every T.
C9_DeleteThenMiss ==
  \A key \in Keys :
    HoldsValue(heap, trie, key) =>
      LET r == TrieRemove(heap, trie, key)
      IN r.status = "ok" /\ \A T \in Types : TrieGet(r.heap, r.root, key, T) = NullValue

\* C9 witness: a trie holding a value on a node with children (demotion) and a
\* value on a leaf (deletion with pruning); after Remove both are absent.
C9_Witness ==
  \E inner \in Keys, leaf \in Keys :
    /\ HoldsValue(heap, trie, inner) /\ HasChildren(heap, trie, inner)
    /\ HoldsValue(heap, trie, leaf) /\ ~HasChildren(heap, trie, leaf)
    /\ LET r == TrieRemove(heap, trie, inner)
       IN r.status = "ok" /\ ~HoldsValue(r.heap, r.root, inner)
          /\ NodeAt(r.heap, r.root, inner) # Null
    /\ LET r == TrieRemove(heap, trie, leaf)
       IN r.status = "ok" /\ ~HoldsValue(r.heap, r.root, leaf)
          /\ NodeAt(r.heap, r.root, leaf) = Null

\* C10: on every reachable trie, Remove(key) returns the receiver's own root
\* (operator== holds) exactly when the key holds no value in the receiver.
C10_RemoveIdentity ==
  \A key \in Keys :
    LET r == TrieRemove(heap, trie, key)
    IN r.status = "ok" /\ ((r.root = trie) <=> ~HoldsValue(heap, trie, key))

\* C10 witness: a non-empty trie with a key whose path breaks off, a key that
\* ends on a value-less prefix node and a key that holds a value; Remove
\* returns the receiver for the first two and a new root for the third.
C10_Witness ==
  \E gone \in Keys, prefix \in Keys, held \in Keys :
    /\ trie # Null
    /\ NodeAt(heap, trie, gone) = Null
    /\ NodeAt(heap, trie, prefix) # Null /\ ~HoldsValue(heap, trie, prefix)
    /\ HoldsValue(heap, trie, held)
    /\ TrieRemove(heap, trie, gone).root = trie
    /\ TrieRemove(heap, trie, prefix).root = trie
    /\ TrieRemove(heap, trie, held).root # trie

\* ---- helpers of the store formulas
\* The pcs of a writer between taking write_lock_ and returning.
WriterBody == {"w_slock", "w_read", "w_compute", "r_noop", "w_ulock", "w_append"}
\* The Trie call a logged store call made on its base version.
ApplyCall(e, h, root) ==
  IF e.op = "Put" THEN TriePut(h, root, e.key, e.value) ELSE TrieRemove(h, root, e.key)
\* Thread t's call returns in this step.
Completes(t) == pc[t] # "idle" /\ pc'[t] = "idle"

\* C1: at most one writer is between taking write_lock_ and returning; the
\* versions are the appended calls applied one after another (version i is
\* the i-th appended call applied to version i-1, one call per version), a
\* Remove that returns without appending removed nothing, and the version a
\* Put returned is the one that Put appended.
C1_WritersSerialized ==
  /\ Cardinality({t \in Threads : pc[t] \in WriterBody}) <= 1
  /\ Len(log) = Len(snapshots_) - 1
  /\ \A i \in 1..Len(log) :
       LET r == ApplyCall(log[i], heap, snapshots_[i])
       IN /\ r.status = "ok"
          /\ r.root # snapshots_[i]
          /\ SameLookups(r.heap, r.root, heap, snapshots_[i + 1], Keys)
  /\ \A t \in Threads :
       /\ pc[t] = "r_noop" => ~HoldsValue(heap, Back(snapshots_), call[t].key)
       /\ ret[t].op = "Put" =>
            /\ ret[t].val \in 1..Len(log)
            /\ log[ret[t].val].by = t /\ log[ret[t].val].op = "Put"

\* C1 witness: two threads each had a Put appended, on different keys, and
\* the newest version holds both keys (neither write was lost).
C1_Witness ==
  /\ Len(log) = 2
  /\ log[1].by # log[2].by
  /\ log[1].op = "Put" /\ log[2].op = "Put" /\ log[1].key # log[2].key
  /\ HoldsValue(heap, snapshots_[3], log[1].key)
  /\ HoldsValue(heap, snapshots_[3], log[2].key)
  /\ \A t \in Threads : ret[t].op = "Put" => ret[t].val \in {1, 2}

\* C2: every version a Put/Remove has returned is an index of snapshots_, and
\* a Get or get_version that started after a Put/Remove returned v reads, under
\* its shared lock, a sequence of length >= v+1: get_version returns >= v and a
\* Get of a version <= v is in range.
C2_ReturnedVersionVisible ==
  /\ maxret <= Len(snapshots_) - 1
  /\ \A t \in Threads :
       /\ pc[t] = "v_read" => GetVersionResult(snapshots_) >= call[t].floor
       /\ pc[t] = "g_read" =>
            /\ Len(snapshots_) >= call[t].floor + 1
            /\ \A v \in 0..call[t].floor : InRange(snapshots_, v)
            /\ call[t].version # Latest /\ call[t].version <= call[t].floor
                 => InRange(snapshots_, call[t].version)

\* C2 witness: a Put has returned version 1; a get_version and a Get of
\* version 1 that started afterwards are at their reads.
C2_Witness ==
  \E t \in Threads, u \in Threads :
    /\ ret[u].op = "Put" /\ ret[u].val = 1
    /\ pc[t] \in {"v_read", "g_read"}
    /\ call[t].floor = 1
    /\ pc[t] = "g_read" => call[t].version = 1

\* What TrieStore::Get<T>(key, version) returns when it runs on the state.
StoreGet(h, s, key, T, version) ==
  IF InRange(s, version) THEN TrieGet(h, s[Resolve(s, version) + 1], key, T)
  ELSE NullValue

\* C3: no step shortens snapshots_ or changes an existing index, no step
\* modifies a node reachable from a published snapshot, and Get(key, v) of a
\* published version v gives the same result after every step.
C3_PublishedImmutable ==
  [][\/ heap' = heap /\ snapshots_' = snapshots_
     \/ /\ Len(snapshots_') >= Len(snapshots_)
        /\ \A i \in 1..Len(snapshots_) :
             /\ snapshots_'[i] = snapshots_[i]
             /\ \A id \in Reach(heap, snapshots_[i]) : heap'[id] = heap[id]
             /\ \A key \in Keys, T \in Types :
                  StoreGet(heap', snapshots_', key, T, i - 1)
                    = StoreGet(heap, snapshots_, key, T, i - 1)]_vars

\* C3 witness: version 1 still holds a value under a key for which version 2
\* gives another result.
C3_Witness ==
  /\ Len(snapshots_) = 3
  /\ \E key \in Keys, T \in Types :
       /\ StoreGet(heap, snapshots_, key, T, 1) # NullValue
       /\ StoreGet(heap, snapshots_, key, T, 2) # StoreGet(heap, snapshots_, key, T, 1)

\* C4: the newest index is 0 at first, no step lowers it, a step raises it by
\* 1 exactly when it is the return of a Put or of a Remove whose key held a
\* value in the newest version, no other step changes it, and get_version
\* returns it.
C4_VersionCount ==
  /\ GetVersionResult(snapshots_) = 0
  /\ [][/\ GetVersionResult(snapshots_') >= GetVersionResult(snapshots_)
        /\ Len(snapshots_') - Len(snapshots_)
             = Cardinality({t \in Threads :
                   /\ Completes(t)
                   /\ \/ call[t].op = "Put"
                      \/ /\ call[t].op = "Remove"
                         /\ HoldsValue(heap, Back(snapshots_), call[t].key)})
        /\ \A t \in Threads :
             Completes(t) /\ call[t].op = "get_version"
               => ret'[t].val = Len(snapshots_) - 1]_vars

\* C4 witness: a Put returned 1 and a Remove that removed nothing returned 1
\* after it; the newest index is 1.
C4_Witness ==
  \E t \in Threads, u \in Threads :
    /\ ret[t].op = "Put" /\ ret[t].val = 1
    /\ ret[u].op = "Remove" /\ ret[u].val = 1
    /\ Len(snapshots_) = 2

\* A Remove is past the test of line 287 holding write_lock_ and the newest
\* version; it is on the early return exactly when its key holds no value.
C11_NoopPath ==
  \A t \in Threads :
    pc[t] \in {"r_noop", "w_ulock"} /\ call[t].op = "Remove" =>
      /\ write_lock_ = t
      /\ local[t].cur = Back(snapshots_)
      /\ (pc[t] = "r_noop") <=> ~HoldsValue(heap, Back(snapshots_), call[t].key)

\* C11: a TrieStore::Remove of a key that holds no value in the newest version
\* takes the no-op path and only that call does; it appends nothing (the
\* sequence, the nodes and the history stay as they are) and returns the newest
\* index, which is the index that was newest ever since the call took
\* write_lock_ (no other thread appends while it holds the lock).
C11_RemoveNoop ==
  /\ C11_NoopPath
  /\ [][/\ C11_NoopPath'
        /\ \A t \in Threads :
            Completes(t) /\ call[t].op = "Remove"
              /\ ~HoldsValue(heap, Back(snapshots_), call[t].key)
              => /\ snapshots_' = snapshots_ /\ heap' = heap /\ log' = log
                 /\ ret'[t].val = Len(snapshots_) - 1
                 /\ ret'[t].val = GetVersionResult(snapshots_')
        /\ \A t \in Threads :
            write_lock_ = t /\ write_lock_' = t => snapshots_' = snapshots_]_vars

\* C11 witness: the only version appended is a Put of "ab"; a Remove (of ""
\* or "a", keys that lead to a node without a value) has returned 1 and the
\* sequence still has its two versions.
C11_Witness ==
  /\ Len(log) = 1 /\ log[1].op = "Put" /\ log[1].key = <<"a", "b">>
  /\ Len(snapshots_) = 2
  /\ \E t \in Threads : ret[t].op = "Remove" /\ ret[t].val = 1
  /\ \A t \in Threads : pc[t] = "idle"

\* The version each Put appended gives that Put's value under its key.
C12_PutsReadable ==
  \A i \in 1..Len(log) :
    log[i].op = "Put" =>
      StoreGet(heap, snapshots_, log[i].key, log[i].value.type, i) = log[i].value

\* C12: a TrieStore::Put(k, v) that returns has appended one snapshot and
\* returns its index (the new length minus 1); Get<T>(k, r) of the returned
\* index r is v, when the call returns and ever after; the index is larger
\* than every index a Put or Remove returned before, so no two Puts return
\* the same index.
C12_PutReturnsAppended ==
  /\ C12_PutsReadable
  /\ [][/\ C12_PutsReadable'
        /\ \A t \in Threads :
             Completes(t) /\ call[t].op = "Put" =>
               /\ Len(snapshots_') = Len(snapshots_) + 1
               /\ ret'[t].val = Len(snapshots_') - 1
               /\ ret'[t].val > maxret
               /\ \A u \in Threads : ret[u].op = "Put" => ret[u].val < ret'[t].val
               /\ log'[ret'[t].val].by = t
               /\ StoreGet(heap', snapshots_', call[t].key, call[t].value.type,
                           ret'[t].val) = call[t].value]_vars

\* C12 witness: two threads each had a Put of the same key returned, with
\* different values; they got the indices 1 and 2, and Get of each index gives
\* the value of the Put that returned it.
C12_Witness ==
  \E t \in Threads, u \in Threads :
    /\ ret[t].op = "Put" /\ ret[t].val = 1
    /\ ret[u].op = "Put" /\ ret[u].val = 2
    /\ Len(log) = 2 /\ log[1].by = t /\ log[2].by = u
    /\ log[1].key = log[2].key /\ log[1].value # log[2].value
    /\ StoreGet(heap, snapshots_, log[1].key, log[1].value.type, 1) = log[1].value
    /\ StoreGet(heap, snapshots_, log[2].key, log[2].value.type, 2) = log[2].value

\* A Get of an explicit version that passed the range test holds the snapshot
\* stored at that index.
C13_HoldsStoredSnapshot ==
  \A t \in Threads :
    pc[t] = "g_walk" /\ call[t].version # Latest =>
      /\ call[t].version <= Len(snapshots_) - 1
      /\ local[t].cur = snapshots_[call[t].version + 1]

\* C13: a TrieStore::Get with an explicit version returns at its read of
\* snapshots_ exactly when the version is above the newest index, and then
\* returns absent; otherwise it holds the snapshot stored at that index and
\* what it returns is a Trie::Get on that snapshot.  The step that returns
\* changes neither the sequence, nor a node, nor a lock, nor the history.
C13_GetExplicitVersion ==
  /\ C13_HoldsStoredSnapshot
  /\ [][/\ C13_HoldsStoredSnapshot'
        /\ \A t \in Threads :
             call[t].op = "Get" /\ call[t].version # Latest /\ pc'[t] # pc[t] =>
               /\ pc[t] = "g_read" =>
                    IF call[t].version > Len(snapshots_) - 1
                    THEN Completes(t) /\ ret'[t].val = NullValue
                    ELSE pc'[t] = "g_walk"
               /\ Completes(t) =>
                    /\ UNCHANGED <<heap, snapshots_, write_lock_, log, maxret>>
                    /\ snapshots_lock_'.excl = snapshots_lock_.excl
                    /\ pc[t] = "g_walk" =>
                         \E key \in StoreKeys, T \in Types :
                           ret'[t].val =
                             TrieGet(heap, snapshots_[call[t].version + 1], key, T)]_vars

\* C13 witness: version 1 has been appended and differs from version 0; a Get
\* of the explicit version 0 holds the snapshot of index 0, not the newest.
C13_Witness ==
  \E t \in Threads :
    /\ pc[t] = "g_walk" /\ call[t].version = 0
    /\ Len(snapshots_) = 2 /\ snapshots_[2] # snapshots_[1]
    /\ local[t].cur = snapshots_[1]

\* The other case of C13: a Get of the explicit version 2 is at its read while
\* the newest index is 1 (it returns absent in its next step).
C13_OutOfRangeCase ==
  \E t \in Threads :
    pc[t] = "g_read" /\ call[t].version = 2 /\ Len(snapshots_) = 2

\* The largest index returned so far is the newest index (so call[t].floor is
\* the newest index when thread t's call started), and a Get of the newest
\* version that is past its read holds a published snapshot whose index is at
\* least that.
C14_HoldsPublishedSince ==
  /\ maxret = Len(snapshots_) - 1
  /\ \A t \in Threads :
       pc[t] = "g_walk" /\ call[t].version = Latest =>
         \E i \in call[t].floor..(Len(snapshots_) - 1) : local[t].cur = snapshots_[i + 1]

\* C14: a TrieStore::Get with the "latest" sentinel never returns at its read;
\* it takes the snapshot at the index that is the last valid one at that
\* instant (after the call started, before it returns), which is not below
\* the index that was newest when the call started and is a published slot
\* of snapshots_; what it returns is a Trie::Get on that snapshot.
C14_GetLatest ==
  /\ C14_HoldsPublishedSince
  /\ [][/\ C14_HoldsPublishedSince'
        /\ \A t \in Threads :
             call[t].op = "Get" /\ call[t].version = Latest /\ pc'[t] # pc[t] =>
               /\ pc[t] = "g_read" =>
                    /\ pc'[t] = "g_walk"
                    /\ local'[t].cur = snapshots_[Len(snapshots_)]
                    /\ Len(snapshots_) - 1 >= call[t].floor
               /\ pc[t] = "g_walk" =>
                    /\ Completes(t)
                    /\ \E key \in StoreKeys, T \in Types :
                         ret'[t].val = TrieGet(heap, local[t].cur, key, T)]_vars

\* C14 witness: a Get of the newest version started when the newest index was
\* 0 and read it; a writer has appended version 1 since, and the Get still
\* holds version 0, the version that was newest at its read.
C14_Witness ==
  \E t \in Threads :
    /\ pc[t] = "g_walk" /\ call[t].version = Latest /\ call[t].floor = 0
    /\ Len(snapshots_) = 2 /\ snapshots_[2] # snapshots_[1]
    /\ local[t].cur = snapshots_[1]

\* ---- helpers of the sharing formulas
IsPrefix(k1, k2) == Len(k1) <= Len(k2) /\ \A j \in 1..Len(k1) : k1[j] = k2[j]
\* r is the result of a call with `key` on (h, root): every node of r on the
\* path to key (under a prefix of key) is an object that did not exist in h,
\* and under every other key r has the very object that (h, root) has there,
\* unmodified (or both have none).
SharesOffPath(h, root, r, key) ==
  \A k \in Keys :
    LET n == NodeAt(r.heap, r.root, k)
        o == NodeAt(h, root, k)
    IN IF IsPrefix(k, key)
       THEN n # Null => n > Len(h)
       ELSE n = o /\ (n # Null => r.heap[n] = h[n])

\* C15: structural sharing: on every reachable trie, after a Put(key, x) that
\* returns, or a Remove(key) that is not a no-op, every node of the new trie
\* that is not on the path from the root to key is the same object as in the
\* receiver, and the nodes on that path are newly created.
C15_StructuralSharing ==
  \A key \in Keys :
    /\ \A value \in Values :
         LET r == TriePut(heap, trie, key, value)
         IN r.status = "ok" => SharesOffPath(heap, trie, r, key)
    /\ LET r == TrieRemove(heap, trie, key)
       IN r.status = "ok" /\ r.root # trie => SharesOffPath(heap, trie, r, key)

\* C15 witness: a trie holding a value under `key` and a node under `other`,
\* which is off the path to key; Put(key, x) and Remove(key) each return a
\* trie with a new root, a new node under key (Put) and the receiver's own
\* node under `other`.
C15_Witness ==
  \E key \in Keys, other \in Keys, value \in Values :
    /\ ~IsPrefix(other, key)
    /\ HoldsValue(heap, trie, key) /\ NodeAt(heap, trie, other) # Null
    /\ LET p == TriePut(heap, trie, key, value)
           q == TrieRemove(heap, trie, key)
       IN /\ p.status = "ok" /\ p.root > Len(heap)
          /\ NodeAt(p.heap, p.root, key) > Len(heap)
          /\ NodeAt(p.heap, p.root, other) = NodeAt(heap, trie, other)
          /\ q.status = "ok" /\ q.root > Len(heap)
          /\ NodeAt(q.heap, q.root, other) = NodeAt(heap, trie, other)

\* C16: type-mismatch miss: on every reachable trie, a key that holds a value
\* gives it to Get<A> for exactly one type A, the type of the value, and
\* Get<B> is absent for every other type B; and after Put<A>(key, value)
\* returns, Get<A>(key) is the value and Get<B>(key) is absent for B # A.
\* Get returns on every trie and key (TrieGet has a result for all of them).
C16_TypeMismatchMiss ==
  \A key \in Keys :
    /\ \A A \in Types :
         TrieGet(heap, trie, key, A) # NullValue =>
           /\ TrieGet(heap, trie, key, A).type = A
           /\ \A B \in Types \ {A} : TrieGet(heap, trie, key, B) = NullValue
    /\ \A value \in Values :
         LET r == TriePut(heap, trie, key, value)
         IN r.status = "ok" =>
              /\ TrieGet(r.heap, r.root, key, value.type) = value
              /\ \A B \in Types \ {value.type} :
                   TrieGet(r.heap, r.root, key, B) = NullValue

\* C16 witness: the trie holds an int under one key and a string under
\* another; each is absent when read with the other's type.
C16_Witness ==
  \E k1 \in Keys, k2 \in Keys :
    /\ TrieGet(heap, trie, k1, "int") # NullValue
    /\ TrieGet(heap, trie, k1, "string") = NullValue
    /\ TrieGet(heap, trie, k2, "string") # NullValue
    /\ TrieGet(heap, trie, k2, "int") = NullValue

\* The next step of a reader (a thread in Get or get_version) can be taken.
ReaderCanStep(u) ==
  ENABLED (\/ ReaderLockShared(u) \/ GetVersionRead(u) \/ GetRead(u)
           \/ \E key \in StoreKeys, T \in Types : GetWalkTrie(u, key, T))

\* C17: while a writer is computing its new trie (it holds write_lock_ and has
\* not asked for the exclusive lock yet), nobody holds snapshots_lock_
\* exclusively and the writer holds no part of it: a lock_shared() returns at
\* once, every thread in a Get or get_version can take its next step, and the
\* version such a reader finds newest is the one the writer computes from.
C17_ReadersNotBlocked ==
  \A t \in Threads :
    pc[t] = "w_compute" =>
      /\ write_lock_ = t
      /\ snapshots_lock_.excl = 0 /\ t \notin snapshots_lock_.shared
      /\ CanLockShared(snapshots_lock_)
      /\ local[t].cur = Back(snapshots_)
      /\ \A u \in Threads :
           pc[u] \in {"g_slock", "v_slock", "g_read", "v_read", "g_walk"} =>
             ReaderCanStep(u)

\* C17 witness: a Put is in its computation while another thread, in
\* get_version, holds snapshots_lock_ shared and is at its read.
C17_Witness ==
  \E t \in Threads, u \in Threads :
    /\ pc[t] = "w_compute" /\ call[t].op = "Put"
    /\ pc[u] = "v_read" /\ u \in snapshots_lock_.shared

\* ---- helpers of the race formula
\* The pcs at which a thread's next step reads snapshots_ (back(), size() or
\* a slot), and the pc at which its next step is the push_back.
ReadsSnapshots == {"w_read", "g_read", "v_read", "r_noop"}
Appends == {"w_append"}

\* C19: no access to snapshots_ races with an append: whenever a thread is at
\* its push_back it owns snapshots_lock_ exclusively and write_lock_, and no
\* other thread is at a read of snapshots_.size(), back() or a slot, nor at a
\* push_back; every reader is covered by a lock the appender needs: the
\* shared lock, or, for the size() of Remove's no-op path, write_lock_.
C19_NoRaceWithAppend ==
  /\ \A t \in Threads :
       pc[t] \in Appends =>
         /\ snapshots_lock_.excl = t /\ snapshots_lock_.shared = {}
         /\ write_lock_ = t
         /\ \A u \in Threads \ {t} : pc[u] \notin ReadsSnapshots \cup Appends
  /\ \A u \in Threads :
       /\ pc[u] \in {"w_read", "g_read", "v_read"} =>
            u \in snapshots_lock_.shared /\ snapshots_lock_.excl = 0
       /\ pc[u] = "r_noop" => write_lock_ = u /\ snapshots_lock_.excl = 0

\* C19 witness: a writer is at its push_back while another thread, in a Get
\* or get_version, waits for its shared lock.
C19_Witness ==
  \E t \in Threads, u \in Threads :
    /\ pc[t] = "w_append" /\ snapshots_lock_.excl = t
    /\ pc[u] \in {"g_slock", "v_slock"}

\* The no-op path of C19: a Remove is at its unlocked size() read while
\* another thread reads a slot under the shared lock (two reads, no append).
C19_NoopReadCase ==
  \E t \in Threads, u \in Threads :
    pc[t] = "r_noop" /\ pc[u] = "g_read" /\ u \in snapshots_lock_.shared

\* ---- helpers of the cleanup formula
\* The node under k is on the chain that Remove(key) must take away: k is a
\* non-empty prefix of key, and every node from k down to the parent of key
\* has no value and no child but the one towards key.
OnDeadChain(h, root, k, key) ==
  /\ k # <<>> /\ IsPrefix(k, key)
  /\ \A p \in Keys :
       IsPrefix(k, p) /\ IsProperPrefix(p, key) =>
         /\ ~h[NodeAt(h, root, p)].is_value_node_
         /\ Cardinality(DOMAIN h[NodeAt(h, root, p)].children) = 1

\* C20: in every trie reachable by Put/Remove every node other than the root
\* has a value or a child; and a Remove of a key held by a leaf returns a trie
\* that lacks exactly the leaf and the maximal chain of its ancestors (below
\* the root) that have no value and no other child: every other node is still
\* there, and every other key holds the value it held.
C20_CleanUpExact ==
  /\ \A id \in Reach(heap, trie) \ {trie} :
       heap[id].is_value_node_ \/ DOMAIN heap[id].children # {}
  /\ \A key \in Keys :
       HoldsValue(heap, trie, key) /\ ~HasChildren(heap, trie, key) =>
         LET r == TrieRemove(heap, trie, key)
         IN /\ r.status = "ok"
            /\ Entries(r.heap, r.root) = Entries(heap, trie) \ {key}
            /\ SameLookups(r.heap, r.root, heap, trie, Keys \ {key})
            /\ \A k \in Keys :
                 NodeAt(heap, trie, k) # Null =>
                   ((NodeAt(r.heap, r.root, k) = Null) <=> OnDeadChain(heap, trie, k, key))

\* C20 witness: a leaf holds a value under a key of length 2 whose parent has
\* no value and no other child, and the root has another child; Remove takes
\* the leaf and the parent away and keeps the root's other child.
C20_Witness ==
  \E key \in KeysOfLen(2), other \in KeysOfLen(1) :
    /\ HoldsValue(heap, trie, key) /\ ~HasChildren(heap, trie, key)
    /\ other # <<key[1]>> /\ NodeAt(heap, trie, other) # Null
    /\ LET r == TrieRemove(heap, trie, key)
       IN /\ r.status = "ok"
          /\ NodeAt(r.heap, r.root, key) = Null
          /\ NodeAt(r.heap, r.root, <<key[1]>>) = Null
          /\ NodeAt(r.heap, r.root, other) = NodeAt(heap, trie, other)

\* C18: under fair scheduling every started TrieStore call (Get, Put, Remove,
\* get_version) eventually returns.
C18_EveryCallReturns ==
  \A t \in Threads : (pc[t] # "idle") ~> (pc[t] = "idle")

\* One way C18 fails: a writer that waits for the exclusive lock, in a
\* running process, gets it.
C18_WriterNotStarved ==
  \A t \in Threads : (pc[t] = "w_ulock" /\ crashed = "no") ~> (pc[t] = "w_append")

\* The part of C18 that holds: no thread inside a call is stuck while the
\* process runs (some thread inside a call can always step) ...
C18_NoDeadlock ==
  crashed = "no" /\ (\E t \in Threads : pc[t] # "idle")
    => \E t \in Threads : ENABLED Step(t)

\* ... and, with a snapshots_lock_ that serves a waiting writer
\* (WriterFairSpec), every started call returns unless the process is ended by
\* a Put of the empty key.
C18_ReturnsUnlessCrashed ==
  \A t \in Threads : (pc[t] # "idle") ~> (pc[t] = "idle" \/ crashed # "no")

=============================================================================
